---- MODULE Spec2Model ----
(***************************************************************************)
(* ScriptedRotation (src/src/celephem/scriptrotation.cpp): a rotation      *)
(* model whose orientation is computed by a Lua object living in the one   *)
(* shared Lua state.  The model keeps the Lua stack and the Lua global     *)
(* table explicitly, translates initialize() and spin() call by call, and  *)
(* records for every operation what it did to the engine.                  *)
(***************************************************************************)
EXTENDS Integers, Sequences, FiniteSets, TLC

\* ------------------------------------------------------------------ bounds
MaxModels == 2   \* ScriptedRotation objects constructed in one run
MaxTime   == 2   \* times handed to spin are 1..MaxTime

Models == 1..MaxModels
Times  == 1..MaxTime

\* -------------------------------------------------------------- Lua values
Nil       == [type |-> "nil"]
LuaTrue   == [type |-> "boolean", b |-> TRUE]
Num(n)    == [type |-> "number", n |-> n]
Str(s)    == [type |-> "string", s |-> s]
Func(b)   == [type |-> "function", body |-> b]
Table(f)  == [type |-> "table", fields |-> f]

\* Keys of the tables the model handles.
Keys == {"period", "beginDate", "endDate", "orientation", "AddonPath"}

EmptyFields == [k \in Keys |-> Nil]

\* The 'orientation' entries a script may give its rotation object: the
\* name of the Lua code behind the field, "absent" for no field and
\* "notcallable" for a field that is not a function.
OrientationKinds == {"rot", "raise", "absent", "notcallable"}

\* Orientation code that returns without error but not four numbers: two
\* values, five values, four values of which two are no numbers.
ReturnKinds == {"short", "long", "nonnum"}

OrientationField(kind) ==
    CASE kind = "absent"      -> Nil
      [] kind = "notcallable" -> Num(7)
      [] OTHER                -> Func(kind)

\* Object names: "cel_script_object_<n>".
ObjectName(n) == "cel_script_object_" \o ToString(n)

ObjectNames == {ObjectName(n) : n \in 0..MaxModels}

\* Global names the scripts of the model define or look up.
ScriptNames == {"require", "makeRot", "errFactory", "numFactory", "notAFunction", "modRot"}

GlobalNames == ScriptNames \cup ObjectNames

\* ------------------------------------------------------ script behaviour
\* The rotation object the factory "makeRot" builds from its parameter
\* table: period, beginDate and endDate are copied, and the string under
\* "orientation" selects the code of the orientation field.
MakeRotation(params) ==
    Table([EmptyFields EXCEPT
             !["period"]      = params.fields["period"],
             !["beginDate"]   = params.fields["beginDate"],
             !["endDate"]     = params.fields["endDate"],
             !["orientation"] = IF params.fields["orientation"].type = "string"
                                THEN OrientationField(params.fields["orientation"].s)
                                ELSE Nil])

\* What the Lua code named body does when called with args while the global
\* table is globals: [ok, results, globals].  On an error, results holds the
\* error message.
CallBody(body, args, globals) ==
    LET Raise(msg) == [ok |-> FALSE, results |-> <<Str(msg)>>, globals |-> globals]
        Return(rs) == [ok |-> TRUE, results |-> rs, globals |-> globals]
    IN CASE body = "require" ->
              IF Len(args) >= 1 /\ args[1] = Str("rotmod")
              THEN [ok |-> TRUE, results |-> <<LuaTrue>>,
                    globals |-> [globals EXCEPT !["modRot"] = Func("makeRot")]]
              ELSE Raise("module not found")
         [] body = "makeRot" ->
              IF Len(args) >= 1 /\ args[1].type = "table"
              THEN Return(<<MakeRotation(args[1])>>)
              ELSE Raise("attempt to index a non-table value")
         [] body = "raise" -> Raise("error raised by script")
         [] body = "retnum" -> Return(<<Num(42)>>)
         [] body = "rot" ->
              \* orientation(self, t): needs self and a numeric t
              IF Len(args) >= 2 /\ args[1].type = "table" /\ args[2].type = "number"
              THEN Return(<<Num(args[2].n), Num(args[2].n + 1),
                            Num(args[2].n + 2), Num(args[2].n + 3)>>)
              ELSE Raise("attempt to perform arithmetic on a non-number value")
         [] body = "short" ->
              IF Len(args) >= 2 /\ args[2].type = "number"
              THEN Return(<<Num(args[2].n), Num(args[2].n + 1)>>)
              ELSE Raise("attempt to perform arithmetic on a non-number value")
         [] body = "long" ->
              IF Len(args) >= 2 /\ args[2].type = "number"
              THEN Return(<<Num(args[2].n), Num(args[2].n + 1), Num(args[2].n + 2),
                            Num(args[2].n + 3), Num(args[2].n + 4)>>)
              ELSE Raise("attempt to perform arithmetic on a non-number value")
         [] body = "nonnum" ->
              IF Len(args) >= 2 /\ args[2].type = "number"
              THEN Return(<<Str("north"), Num(args[2].n + 1), LuaTrue,
                            Num(args[2].n + 3)>>)
              ELSE Raise("attempt to perform arithmetic on a non-number value")
         [] OTHER -> Raise("attempt to call a non-function value")

\* --------------------------------------------------------------- Lua API
\* A Lua state L is [stack, globals, trace, status]: the value stack, the
\* global table, the API calls made on it since the running operation
\* began, and the status of the last lua_pcall.

\* Absolute position of the stack index idx: a positive index counts from
\* the bottom of the stack, a negative one from its top.
AbsIndex(L, idx) == IF idx > 0 THEN idx ELSE Len(L.stack) + 1 + idx

Log(L, entry) == Append(L.trace, entry)

lua_getglobal(L, name) ==
    [L EXCEPT !.stack = Append(@, L.globals[name]),
              !.trace = Log(L, <<"lua_getglobal", name>>)]

lua_setglobal(L, name) ==
    [L EXCEPT !.globals = [@ EXCEPT ![name] = L.stack[Len(L.stack)]],
              !.stack = SubSeq(@, 1, Len(@) - 1),
              !.trace = Log(L, <<"lua_setglobal", name>>)]

lua_pop(L, n) ==
    [L EXCEPT !.stack = SubSeq(@, 1, Len(@) - n),
              !.trace = Log(L, <<"lua_pop", n>>)]

lua_pushstring(L, s) ==
    [L EXCEPT !.stack = Append(@, Str(s)),
              !.trace = Log(L, <<"lua_pushstring", s>>)]

lua_pushnumber(L, n) ==
    [L EXCEPT !.stack = Append(@, Num(n)),
              !.trace = Log(L, <<"lua_pushnumber", n>>)]

lua_pushvalue(L, idx) ==
    [L EXCEPT !.stack = Append(@, L.stack[AbsIndex(L, idx)]),
              !.trace = Log(L, <<"lua_pushvalue", idx>>)]

lua_newtable(L) ==
    [L EXCEPT !.stack = Append(@, Table(EmptyFields)),
              !.trace = Log(L, <<"lua_newtable">>)]

\* t[k] = v, t at idx, k just below the top and v on top; pops both.
lua_settable(L, idx) ==
    LET n == Len(L.stack)
        t == AbsIndex(L, idx)
        k == L.stack[n - 1].s
        v == L.stack[n]
    IN [L EXCEPT !.stack = SubSeq([@ EXCEPT ![t] =
                                     Table([@.fields EXCEPT ![k] = v])], 1, n - 2),
                 !.trace = Log(L, <<"lua_settable", idx>>)]

\* Replaces the key on top by t[k], t at idx.
lua_gettable(L, idx) ==
    LET n == Len(L.stack)
        t == L.stack[AbsIndex(L, idx)]
        k == L.stack[n].s
    IN [L EXCEPT !.stack = [@ EXCEPT ![n] = IF k \in Keys THEN t.fields[k] ELSE Nil],
                 !.trace = Log(L, <<"lua_gettable", idx>>)]

lua_isfunction(L, idx) == L.stack[AbsIndex(L, idx)].type = "function"

lua_istable(L, idx) == L.stack[AbsIndex(L, idx)].type = "table"

\* A number converts to itself; every other value handled here to 0.
lua_tonumber(L, idx) ==
    LET v == L.stack[AbsIndex(L, idx)]
    IN IF v.type = "number" THEN v.n ELSE 0

\* Results of a call adjusted to exactly n values.
AdjustResults(rs, n) ==
    [i \in 1..n |-> IF i <= Len(rs) THEN rs[i] ELSE Nil]

\* Calls the function below its nargs arguments in protected mode; function
\* and arguments are popped, and nresults results, or on an error the one
\* error message, are pushed.  status 0 is LUA_OK.  The trace entry holds
\* the function, its arguments, the status and the values pushed.
lua_pcall(L, nargs, nresults) ==
    LET n    == Len(L.stack)
        f    == L.stack[n - nargs]
        args == SubSeq(L.stack, n - nargs + 1, n)
        base == SubSeq(L.stack, 1, n - nargs - 1)
        r    == CallBody(IF f.type = "function" THEN f.body ELSE "", args, L.globals)
        out  == IF r.ok THEN AdjustResults(r.results, nresults) ELSE r.results
        st   == IF r.ok THEN 0 ELSE 2
    IN [stack   |-> base \o out,
        globals |-> r.globals,
        trace   |-> Log(L, <<"lua_pcall", f, args, st, out>>),
        status  |-> st]

\* ------------------------------------------------------- ScriptedRotation
NULL == "NULL"

\* Quaterniond(w, x, y, z)
Quaterniond(w, x, y, z) == <<w, x, y, z>>

Identity == Quaterniond(1, 0, 0, 0)

\* lastTime of a rotation that was never evaluated; no time handed to spin.
InitialLastTime == 0 - 1

\* A ScriptedRotation as constructed, before initialize.
NewRotation(cacheable) ==
    [luaState              |-> NULL,
     luaRotationObjectName |-> "",
     period                |-> 0,
     validRangeBegin       |-> 0,
     validRangeEnd         |-> 0,
     lastTime              |-> InitialLastTime,
     lastOrientation       |-> Identity,
     cacheable             |-> cacheable]

\* The shared Lua state handed out to scripted objects, NULL while there is
\* none.
GetScriptedObjectContext(available) == IF available THEN "L" ELSE NULL

\* The count-th generated object name.
GenerateScriptObjectName(count) == ObjectName(count)

\* Copies the entries of the parameter Hash into the table on top of the
\* stack.
SetLuaVariables(L, parameters) ==
    LET Push(L1, v) == IF v.type = "number" THEN lua_pushnumber(L1, v.n)
                       ELSE lua_pushstring(L1, v.s)
        Set(L1, k) ==
          IF parameters.hash[k].type = "nil" THEN L1
          ELSE lua_settable(Push(lua_pushstring(L1, k), parameters.hash[k]), -3)
    IN Set(Set(Set(Set(L, "period"), "beginDate"), "endDate"), "orientation")

\* The numeric field key of the table at idx, or the default; the stack is
\* left as it was.
SafeGetLuaNumber(L, idx, key, default) ==
    LET L1 == lua_gettable(lua_pushstring(L, key), idx - 1)
        v  == L1.stack[Len(L1.stack)]
    IN [L |-> lua_pop(L1, 1),
        value |-> IF v.type = "number" THEN v.n ELSE default]

\* Line 135: the sanity check on the valid range.  (_unchecked: the
\* comparison left out.)
RangeInvalid_unchecked(validRangeBegin, validRangeEnd) == FALSE

RangeInvalid(validRangeBegin, validRangeEnd) == validRangeEnd < validRangeBegin

\* (_samename: every object registered under one name.)
RegisterObject_samename(self, L, count) ==
    LET name == GenerateScriptObjectName(0)
        L1 == lua_setglobal(lua_pushvalue(L, -1), name)
        p  == SafeGetLuaNumber(L1, -1, "period", 0)
        b  == SafeGetLuaNumber(p.L, -1, "beginDate", 0)
        e  == SafeGetLuaNumber(b.L, -1, "endDate", 0)
        L2 == lua_pop(e.L, 1)
        s  == [self EXCEPT !.luaRotationObjectName = name,
                           !.period = p.value,
                           !.validRangeBegin = b.value,
                           !.validRangeEnd = e.value]
    IN [ret |-> ~RangeInvalid(s.validRangeBegin, s.validRangeEnd),
        self |-> s, L |-> L2, count |-> count + 1]

\* Lines 120-141: the factory returned a table, which is on top of the stack.
RegisterObject(self, L, count) ==
    LET name == GenerateScriptObjectName(count)
        L1 == lua_setglobal(lua_pushvalue(L, -1), name)
        p  == SafeGetLuaNumber(L1, -1, "period", 0)
        b  == SafeGetLuaNumber(p.L, -1, "beginDate", 0)
        e  == SafeGetLuaNumber(b.L, -1, "endDate", 0)
        L2 == lua_pop(e.L, 1)
        s  == [self EXCEPT !.luaRotationObjectName = name,
                           !.period = p.value,
                           !.validRangeBegin = b.value,
                           !.validRangeEnd = e.value]
    IN [ret |-> ~RangeInvalid(s.validRangeBegin, s.validRangeEnd),
        self |-> s, L |-> L2, count |-> count + 1]

\* (_registerfirst: the result registered before it is checked to be a
\* table.)
CallFactory_registerfirst(self, L, funcName, parameters, path, count) ==
    LET Fail(L1) == [ret |-> FALSE, self |-> self, L |-> L1, count |-> count]
        L1 == lua_getglobal(L, funcName)
        L2 == lua_newtable(L1)
        L3 == SetLuaVariables(L2, parameters)
        L4 == lua_settable(lua_pushstring(lua_pushstring(L3, "AddonPath"), path), -3)
        L5 == lua_pcall(L4, 1, 1)
        L6 == lua_setglobal(lua_pushvalue(L5, -1), GenerateScriptObjectName(count))
    IN IF ~lua_isfunction(L1, -1) THEN Fail(lua_pop(L1, 1))
       ELSE IF L5.status # 0 THEN Fail(lua_pop(L5, 1))
       ELSE IF ~lua_istable(L5, -1)
            THEN [ret |-> FALSE,
                  self |-> [self EXCEPT !.luaRotationObjectName =
                                           GenerateScriptObjectName(count)],
                  L |-> lua_pop(L6, 1), count |-> count + 1]
       ELSE RegisterObject(self, L5, count)

\* Lines 78-119: resolve and call the factory function.
CallFactory(self, L, funcName, parameters, path, count) ==
    LET Fail(L1) == [ret |-> FALSE, self |-> self, L |-> L1, count |-> count]
        L1 == lua_getglobal(L, funcName)
        L2 == lua_newtable(L1)
        L3 == SetLuaVariables(L2, parameters)
        L4 == lua_settable(lua_pushstring(lua_pushstring(L3, "AddonPath"), path), -3)
        L5 == lua_pcall(L4, 1, 1)
    IN IF ~lua_isfunction(L1, -1) THEN Fail(lua_pop(L1, 1))
       ELSE IF L5.status # 0 THEN Fail(lua_pop(L5, 1))
       ELSE IF ~lua_istable(L5, -1) THEN Fail(lua_pop(L5, 1))
       ELSE RegisterObject(self, L5, count)

\* (_eager: the Lua state acquired before the parameters are looked at.)
initialize_eager(self, L, context, moduleName, funcName, parameters, path, count) ==
    LET s1 == [self EXCEPT !.luaState = context]
        Fail(s, L1) == [ret |-> FALSE, self |-> s, L |-> L1, count |-> count]
        La == lua_getglobal(L, "require")
        Lb == lua_pcall(lua_pushstring(La, moduleName), 1, 1)
    IN IF context = NULL THEN Fail(s1, L)
       ELSE IF parameters.null THEN Fail(s1, L)
       ELSE IF moduleName # NULL /\ moduleName # ""
            THEN IF ~lua_isfunction(La, -1) THEN Fail(s1, lua_pop(La, 1))
                 ELSE IF Lb.status # 0 THEN Fail(s1, lua_pop(Lb, 1))
                 ELSE CallFactory(s1, Lb, funcName, parameters, path, count)
            ELSE CallFactory(s1, L, funcName, parameters, path, count)

\* (_nopop: the error message of a failed require left on the stack.)
initialize_nopop(self, L, context, moduleName, funcName, parameters, path, count) ==
    LET s1 == [self EXCEPT !.luaState = context]
        Fail(s, L1) == [ret |-> FALSE, self |-> s, L |-> L1, count |-> count]
        La == lua_getglobal(L, "require")
        Lb == lua_pcall(lua_pushstring(La, moduleName), 1, 1)
    IN IF parameters.null THEN Fail(self, L)
       ELSE IF context = NULL THEN Fail(s1, L)
       ELSE IF moduleName # NULL /\ moduleName # ""
            THEN IF ~lua_isfunction(La, -1) THEN Fail(s1, lua_pop(La, 1))
                 ELSE IF Lb.status # 0 THEN Fail(s1, Lb)
                 ELSE CallFactory(s1, Lb, funcName, parameters, path, count)
            ELSE CallFactory(s1, L, funcName, parameters, path, count)

\* Lines 43-142.  context is what GetScriptedObjectContext returns and count
\* the number of object names generated so far.
initialize(self, L, context, moduleName, funcName, parameters, path, count) ==
    LET s1 == [self EXCEPT !.luaState = context]
        Fail(s, L1) == [ret |-> FALSE, self |-> s, L |-> L1, count |-> count]
        La == lua_getglobal(L, "require")
        Lb == lua_pcall(lua_pushstring(La, moduleName), 1, 1)
    IN IF parameters.null THEN Fail(self, L)
       ELSE IF context = NULL THEN Fail(s1, L)
       ELSE IF moduleName # NULL /\ moduleName # ""
            THEN IF ~lua_isfunction(La, -1) THEN Fail(s1, lua_pop(La, 1))
                 ELSE IF Lb.status # 0 THEN Fail(s1, lua_pop(Lb, 1))
                 ELSE CallFactory(s1, Lb, funcName, parameters, path, count)
            ELSE CallFactory(s1, L, funcName, parameters, path, count)

\* Line 149.  (_always: the cache never used; _forward: only a later time
\* counted as another time; _timeonly: cacheable not looked at.)
CacheMiss_always(self, tjd) == TRUE

CacheMiss_timeonly(self, tjd) == tjd # self.lastTime

CacheMiss_forward(self, tjd) == tjd > self.lastTime \/ ~self.cacheable

CacheMiss(self, tjd) == tjd # self.lastTime \/ ~self.cacheable

\* Lines 162-167: the call returned; its four results are on the stack.
\* (_xyzw: the components read in the wrong order; _strict: results that
\* are not four numbers treated as a failure.)
SpinCallSucceeded_strict(self, L, tjd) ==
    IF \A i \in 1..4 : L.stack[AbsIndex(L, 0 - i)].type = "number"
    THEN [self |-> [self EXCEPT
                      !.lastOrientation = Quaterniond(lua_tonumber(L, -4),
                                                      lua_tonumber(L, -3),
                                                      lua_tonumber(L, -2),
                                                      lua_tonumber(L, -1)),
                      !.lastTime = tjd],
          L |-> lua_pop(L, 4),
          branch |-> "succeeded"]
    ELSE [self |-> self, L |-> lua_pop(L, 4), branch |-> "call failed"]

SpinCallSucceeded_xyzw(self, L, tjd) ==
    [self |-> [self EXCEPT
                 !.lastOrientation = Quaterniond(lua_tonumber(L, -3),
                                                 lua_tonumber(L, -2),
                                                 lua_tonumber(L, -1),
                                                 lua_tonumber(L, -4)),
                 !.lastTime = tjd],
     L |-> lua_pop(L, 4),
     branch |-> "succeeded"]

SpinCallSucceeded(self, L, tjd) ==
    [self |-> [self EXCEPT
                 !.lastOrientation = Quaterniond(lua_tonumber(L, -4),
                                                 lua_tonumber(L, -3),
                                                 lua_tonumber(L, -2),
                                                 lua_tonumber(L, -1)),
                 !.lastTime = tjd],
     L |-> lua_pop(L, 4),
     branch |-> "succeeded"]

\* Lines 171-173: the call failed; the error message is on the stack.
\* (_nopop: the message left on the stack; _caches: the failure cached.)
SpinCallFailed_nopop(self, L, tjd) ==
    [self |-> self, L |-> L, branch |-> "call failed"]

SpinCallFailed_caches(self, L, tjd) ==
    [self |-> [self EXCEPT !.lastTime = tjd], L |-> lua_pop(L, 1),
     branch |-> "call failed"]

SpinCallFailed(self, L, tjd) ==
    [self |-> self, L |-> lua_pop(L, 1), branch |-> "call failed"]

\* Lines 178-179: the orientation field is no function.
SpinBadOrientation(self, L, tjd) ==
    [self |-> self, L |-> lua_pop(L, 1), branch |-> "bad orientation"]

\* Line 184: the object under the name is no table.
SpinObjectDisappeared(self, L, tjd) ==
    [self |-> self, L |-> L, branch |-> "disappeared"]

\* (_absolute: the object passed as self taken from the bottom of the stack,
\* lua_pushvalue(luaState, 1), instead of from below the method.)
spin_absolute(self, L, tjd) ==
    LET L1 == lua_getglobal(L, self.luaRotationObjectName)
        L2 == lua_gettable(lua_pushstring(L1, "orientation"), -2)
        L3 == lua_pcall(lua_pushnumber(lua_pushvalue(L2, 1), tjd), 2, 4)
        r  == IF lua_istable(L1, -1)
              THEN IF lua_isfunction(L2, -1)
                   THEN IF L3.status = 0
                        THEN SpinCallSucceeded(self, L3, tjd)
                        ELSE SpinCallFailed(self, L3, tjd)
                   ELSE SpinBadOrientation(self, L2, tjd)
              ELSE SpinObjectDisappeared(self, L1, tjd)
    IN IF CacheMiss(self, tjd)
       THEN [ret |-> r.self.lastOrientation, self |-> r.self,
             L |-> lua_pop(r.L, 1), branch |-> r.branch]
       ELSE [ret |-> self.lastOrientation, self |-> self, L |-> L,
             branch |-> "cached"]

\* Lines 146-192.
spin(self, L, tjd) ==
    LET L1 == lua_getglobal(L, self.luaRotationObjectName)
        L2 == lua_gettable(lua_pushstring(L1, "orientation"), -2)
        L3 == lua_pcall(lua_pushnumber(lua_pushvalue(L2, -2), tjd), 2, 4)
        r  == IF lua_istable(L1, -1)
              THEN IF lua_isfunction(L2, -1)
                   THEN IF L3.status = 0
                        THEN SpinCallSucceeded(self, L3, tjd)
                        ELSE SpinCallFailed(self, L3, tjd)
                   ELSE SpinBadOrientation(self, L2, tjd)
              ELSE SpinObjectDisappeared(self, L1, tjd)
    IN IF CacheMiss(self, tjd)
       THEN [ret |-> r.self.lastOrientation, self |-> r.self,
             L |-> lua_pop(r.L, 1), branch |-> r.branch]
       ELSE [ret |-> self.lastOrientation, self |-> self, L |-> L,
             branch |-> "cached"]

\* Lines 195-202.  (_raw: the fallback to the valid range left out.)
getPeriod_raw(self) == self.period

getPeriod(self) ==
    IF self.period = 0 THEN self.validRangeEnd - self.validRangeBegin
    ELSE self.period

\* Lines 205-209.
isPeriodic(self) == self.period # 0

\* Lines 212-217.
getValidRange(self) == <<self.validRangeBegin, self.validRangeEnd>>

\* ------------------------------------------------------------------ state
VARIABLES
    lua,               \* the shared Lua state: [stack, globals]
    contextAvailable,  \* whether a shared Lua state has been set up
    objectCount,       \* object names generated so far
    rotations,         \* the ScriptedRotation objects: [state, r]
    last               \* the operation that ran last and what it did

vars == <<lua, contextAvailable, objectCount, rotations, last>>

\* ----------------------------------------------------------------- inputs
ModuleNames == {NULL, "", "rotmod", "nomod"}

FuncNames == {"makeRot", "errFactory", "numFactory", "notAFunction", "modRot"}

PeriodValues == {Nil, Num(3)}

BeginValues == {Nil, Num(2)}

EndValues == {Nil, Num(1), Num(3)}

Hashes ==
    {[k \in Keys |-> CASE k = "period"      -> p
                       [] k = "beginDate"   -> b
                       [] k = "endDate"     -> e
                       [] k = "orientation" -> Str(o)
                       [] OTHER             -> Nil] :
        p \in PeriodValues, b \in BeginValues, e \in EndValues, o \in {"rot"}}

NullParameters == [null |-> TRUE]

ParameterSets == {NullParameters} \cup {[null |-> FALSE, hash |-> h] : h \in Hashes}

\* A declaration with no period and no valid range.
PlainParameters ==
    [null |-> FALSE,
     hash |-> [EmptyFields EXCEPT !["orientation"] = Str("rot")]]

AddonPath == "addon"

\* What a script may do to the value v stored under an object name: remove
\* it, replace it by a non-table, or give the object another orientation
\* field.
MutationKinds == {"remove", "clobber"} \cup OrientationKinds

Mutate(v, kind) ==
    CASE kind = "remove"  -> Nil
      [] kind = "clobber" -> Num(7)
      [] OTHER -> IF v.type = "table"
                  THEN Table([v.fields EXCEPT !["orientation"] = OrientationField(kind)])
                  ELSE v

InitialGlobals ==
    [n \in GlobalNames |->
        CASE n = "require"      -> Func("require")
          [] n = "makeRot"      -> Func("makeRot")
          [] n = "errFactory"   -> Func("raise")
          [] n = "numFactory"   -> Func("retnum")
          [] n = "notAFunction" -> Num(5)
          [] OTHER              -> Nil]

\* The cached values of a rotation.
Cache(self) == [lastTime |-> self.lastTime, lastOrientation |-> self.lastOrientation]

\* last: the operation op ran on rotation m (spin: at time t), found the
\* stack at depth depth0 and the cached values before, made the API calls of
\* trace and returned ret; branch is the branch spin took; null tells that
\* initialize was handed no parameters.  prev describes
\* the spin that ran on m right before this spin, if one did: its time,
\* whether it got past the cache, the statuses of its script calls and what
\* it returned.  mended tells that a script repaired the registered object
\* between that spin and this one.
NoPrev == [t |-> InitialLastTime, miss |-> FALSE, calls |-> <<>>, ret |-> Identity]

NoOp == [op |-> "none", m |-> 0, t |-> 0, ret |-> FALSE, depth0 |-> 0,
         before |-> Cache(NewRotation(TRUE)), trace |-> <<>>, branch |-> "",
         null |-> FALSE, prev |-> NoPrev, mended |-> FALSE]

\* The statuses of the protected calls in a trace, in order.
CallStatuses(trace) ==
    LET calls == SelectSeq(trace, LAMBDA e : e[1] = "lua_pcall")
    IN [i \in 1..Len(calls) |-> calls[i][4]]

Init ==
    /\ lua = [stack |-> <<>>, globals |-> InitialGlobals]
    /\ contextAvailable = FALSE
    /\ objectCount = 0
    /\ rotations = [m \in Models |-> [state |-> "none", r |-> NewRotation(TRUE)]]
    /\ last = NoOp

\* The Lua state as an operation finds it.
Enter == [stack |-> lua.stack, globals |-> lua.globals, trace |-> <<>>, status |-> 0]

Leave(L) == [stack |-> L.stack, globals |-> L.globals]

\* ---------------------------------------------------------------- actions
SetScriptedObjectContext ==
    /\ ~contextAvailable
    /\ contextAvailable' = TRUE
    /\ last' = [NoOp EXCEPT !.op = "SetScriptedObjectContext"]
    /\ UNCHANGED <<lua, objectCount, rotations>>

\* A ScriptedRotation is constructed and initialized.
Initialize(m, cacheable, moduleName, funcName, parameters) ==
    /\ rotations[m].state = "none"
    /\ LET self == NewRotation(cacheable)
           res  == initialize(self, Enter, GetScriptedObjectContext(contextAvailable),
                              moduleName, funcName, parameters, AddonPath, objectCount)
       IN /\ rotations' = [rotations EXCEPT ![m] =
                             [state |-> IF res.ret THEN "ready" ELSE "failed",
                              r |-> res.self]]
          /\ lua' = Leave(res.L)
          /\ objectCount' = res.count
          /\ last' = [op |-> "initialize", m |-> m, t |-> 0, ret |-> res.ret,
                       depth0 |-> Len(lua.stack), before |-> Cache(self),
                      trace |-> res.L.trace, branch |-> "",
                      null |-> parameters.null, prev |-> NoPrev,
                      mended |-> FALSE]
    /\ UNCHANGED contextAvailable

\* (_shared: lastTime and lastOrientation kept once for all rotations.)
Spin_shared(m, tjd) ==
    /\ rotations[m].state = "ready"
    /\ LET self == rotations[m].r
           res  == spin(self, Enter, tjd)
       IN /\ rotations' = [n \in Models |->
                             IF rotations[n].state = "ready"
                             THEN [rotations[n] EXCEPT
                                     !.r.lastTime = res.self.lastTime,
                                     !.r.lastOrientation = res.self.lastOrientation]
                             ELSE rotations[n]]
          /\ lua' = Leave(res.L)
          /\ last' = [op |-> "spin", m |-> m, t |-> tjd, ret |-> res.ret,
                       depth0 |-> Len(lua.stack), before |-> Cache(self),
                      trace |-> res.L.trace, branch |-> res.branch,
                      null |-> FALSE,
                      prev |-> IF last.op = "spin" /\ last.m = m
                               THEN [t |-> last.t, miss |-> last.branch # "cached",
                                     calls |-> CallStatuses(last.trace),
                                     ret |-> last.ret]
                               ELSE IF last.op = "repair" /\ last.m = m
                               THEN last.prev
                               ELSE NoPrev,
                      mended |-> last.op = "repair" /\ last.m = m]
    /\ UNCHANGED <<contextAvailable, objectCount>>

Spin(m, tjd) ==
    /\ rotations[m].state = "ready"
    /\ LET self == rotations[m].r
           res  == spin(self, Enter, tjd)
       IN /\ rotations' = [rotations EXCEPT ![m].r = res.self]
          /\ lua' = Leave(res.L)
          /\ last' = [op |-> "spin", m |-> m, t |-> tjd, ret |-> res.ret,
                       depth0 |-> Len(lua.stack), before |-> Cache(self),
                      trace |-> res.L.trace, branch |-> res.branch,
                      null |-> FALSE,
                      prev |-> IF last.op = "spin" /\ last.m = m
                               THEN [t |-> last.t, miss |-> last.branch # "cached",
                                     calls |-> CallStatuses(last.trace),
                                     ret |-> last.ret]
                               ELSE IF last.op = "repair" /\ last.m = m
                               THEN last.prev
                               ELSE NoPrev,
                      mended |-> last.op = "repair" /\ last.m = m]
    /\ UNCHANGED <<contextAvailable, objectCount>>

\* A script changes what is stored under the object name of a rotation.
ScriptMutation(m, kind) ==
    /\ rotations[m].state = "ready"
    /\ LET name == rotations[m].r.luaRotationObjectName
           v    == Mutate(lua.globals[name], kind)
       IN /\ v # lua.globals[name]
          /\ lua' = [lua EXCEPT !.globals[name] = v]
    /\ last' = [NoOp EXCEPT !.op = "mutation", !.m = m]
    /\ UNCHANGED <<contextAvailable, objectCount, rotations>>

\* Rotation 1 is declared in every way (module, factory function, parameters,
\* cacheable), spun at every time, and has its registered object changed by
\* scripts.  The other rotations share the Lua state with it: each is
\* declared plainly through makeRot and spun at time 1, so that names are
\* generated and the stack and the global table are used in between the
\* operations on rotation 1.  A rotation that is no longer used is one whose
\* operations no longer occur; its destructor is not part of the source.
Next ==
    \/ SetScriptedObjectContext
    \/ \E c \in BOOLEAN, mod \in ModuleNames, f \in FuncNames, p \in ParameterSets :
          Initialize(1, c, mod, f, p)
    \/ \E m \in Models \ {1} :
          Initialize(m, TRUE, NULL, "makeRot", PlainParameters)
    \/ \E t \in Times : Spin(1, t)
    \/ \E m \in Models \ {1} : Spin(m, 1)
    \/ \E k \in MutationKinds : ScriptMutation(1, k)

Spec == Init /\ [][Next]_vars

\* A script clears the global require, as a Lua state without the package
\* library has it.
RemoveRequire ==
    /\ contextAvailable
    /\ lua.globals["require"].type = "function"
    /\ lua' = [lua EXCEPT !.globals["require"] = Nil]
    /\ last' = [NoOp EXCEPT !.op = "mutation"]
    /\ UNCHANGED <<contextAvailable, objectCount, rotations>>

\* Module loading: rotation 1 is declared in every way, the other rotations
\* plainly or through the module rotmod, and require may be gone from the
\* global table.  Registered objects are left alone.
BystanderModules == {NULL, "rotmod"}

NextModules ==
    \/ SetScriptedObjectContext
    \/ RemoveRequire
    \/ \E c \in BOOLEAN, mod \in ModuleNames, f \in FuncNames, p \in ParameterSets :
          Initialize(1, c, mod, f, p)
    \/ \E m \in Models \ {1}, mod \in BystanderModules :
          Initialize(m, TRUE, mod, "makeRot", PlainParameters)
    \/ \E m \in Models : Spin(m, 1)

SpecModules == Init /\ [][NextModules]_vars

\* An object with a working orientation method and nothing else.
WorkingObject == Table([EmptyFields EXCEPT !["orientation"] = OrientationField("rot")])

\* A script makes the object of a rotation functional again, right after a
\* spin of that rotation: it gives the object a working orientation method,
\* or stores a working object where there is no table.
ScriptRepair(m) ==
    /\ rotations[m].state = "ready"
    /\ last.op = "spin" /\ last.m = m
    /\ LET name == rotations[m].r.luaRotationObjectName
           v    == IF lua.globals[name].type = "table"
                   THEN Mutate(lua.globals[name], "rot")
                   ELSE WorkingObject
       IN /\ v # lua.globals[name]
          /\ lua' = [lua EXCEPT !.globals[name] = v]
    /\ last' = [NoOp EXCEPT !.op = "repair", !.m = m,
                            !.prev = [t |-> last.t, miss |-> last.branch # "cached",
                                      calls |-> CallStatuses(last.trace),
                                      ret |-> last.ret]]
    /\ UNCHANGED <<contextAvailable, objectCount, rotations>>

\* Recovery: rotation 1 is declared plainly, cacheable or not, spun at every
\* time, broken by scripts and repaired by them; the other rotations are as
\* in Next.
NextRecovery ==
    \/ SetScriptedObjectContext
    \/ \E c \in BOOLEAN : Initialize(1, c, NULL, "makeRot", PlainParameters)
    \/ \E m \in Models \ {1} :
          Initialize(m, TRUE, NULL, "makeRot", PlainParameters)
    \/ \E t \in Times : Spin(1, t)
    \/ \E m \in Models \ {1} : Spin(m, 1)
    \/ \E k \in MutationKinds : ScriptMutation(1, k)
    \/ ScriptRepair(1)

SpecRecovery == Init /\ [][NextRecovery]_vars

\* Malformed results: rotation 1 is declared plainly, cacheable or not, and
\* spun at every time, while scripts give its object orientation methods
\* that return four numbers, raise, or return something else; the other
\* rotations are declared plainly or through the module rotmod.
ReturnMutations == {"rot", "raise"} \cup ReturnKinds

NextReturns ==
    \/ SetScriptedObjectContext
    \/ \E c \in BOOLEAN : Initialize(1, c, NULL, "makeRot", PlainParameters)
    \/ \E m \in Models \ {1}, mod \in BystanderModules :
          Initialize(m, TRUE, mod, "makeRot", PlainParameters)
    \/ \E t \in Times : Spin(1, t)
    \/ \E m \in Models \ {1} : Spin(m, 1)
    \/ \E k \in ReturnMutations : ScriptMutation(1, k)

SpecReturns == Init /\ [][NextReturns]_vars

\* ------------------------------------------------- reading the last operation
\* The rotation the last operation ran on, as it is now.
Subject == rotations[last.m].r

\* The protected calls the last operation made, in order.
ScriptCalls == SelectSeq(last.trace, LAMBDA e : e[1] = "lua_pcall")

\* A call: <<"lua_pcall", function, arguments, status, values pushed>>.
CallFunction(c) == c[2]
CallArgs(c)     == c[3]
CallStatus(c)   == c[4]
CallPushed(c)   == c[5]

\* The object stored under the subject's name.
Registered == lua.globals[Subject.luaRotationObjectName]

IsCallable(v) == v.type = "function"

\* Whether the registered object has a callable orientation field.
Functional(obj) == obj.type = "table" /\ IsCallable(obj.fields["orientation"])

\* The number a script value is read as.
AsNumber(v) == IF v.type = "number" THEN v.n ELSE 0

\* The last operation was a spin that found the cache unusable.
SpinMissed ==
    /\ last.op = "spin"
    /\ (last.t # last.before.lastTime \/ ~Subject.cacheable)

\* ------------------------------------------------------------------ claims

\* C1: whichever branch spin takes, the depth of the shared Lua stack when
\* spin returns is its depth when spin was entered.
C1_SpinStackBalanced ==
    last.op = "spin" => Len(lua.stack) = last.depth0

\* A spin whose script call raised an error, entered with a non-empty stack.
C1_Witness ==
    /\ SpinMissed
    /\ Functional(Registered)
    /\ Len(ScriptCalls) = 1 /\ CallStatus(ScriptCalls[1]) # 0
    /\ last.depth0 > 0

\* C2 (as claimed): on every return of initialize the depth of the shared
\* Lua stack is its depth at entry.
C2_InitializeStackBalanced ==
    last.op = "initialize" => Len(lua.stack) = last.depth0

\* C3 (as claimed): when initialize returns failure, nothing is left
\* registered in the global table under an object name that call generated.
C3_NoRegistrationAfterFailure ==
    (last.op = "initialize" /\ ~last.ret) =>
        \A i \in DOMAIN last.trace :
            last.trace[i][1] = "lua_setglobal" =>
                lua.globals[last.trace[i][2]].type = "nil"

\* C4: spin(t) on a cacheable rotation with t = lastTime returns
\* lastOrientation, makes no Lua API call at all, and leaves lastOrientation
\* and lastTime as they were.
C4_CacheHitTouchesNothing ==
    (last.op = "spin" /\ Subject.cacheable /\ last.t = last.before.lastTime) =>
        /\ last.ret = last.before.lastOrientation
        /\ last.trace = <<>>
        /\ Cache(Subject) = last.before

\* A cache hit that returns a value a script computed earlier.
C4_Witness ==
    /\ last.op = "spin" /\ Subject.cacheable
    /\ last.t = last.before.lastTime
    /\ last.ret # Identity

\* The last operation was the second of two spins in a row on one cacheable
\* rotation at one time.
SpunTwice ==
    /\ last.op = "spin" /\ Subject.cacheable
    /\ last.prev.t = last.t

\* C5 (as claimed): two spins in a row at one time on a cacheable rotation,
\* the first of them past the cache, make exactly one script call in total
\* and return the same value.
C5_TwoSpinsOneCall ==
    (SpunTwice /\ last.prev.miss) =>
        /\ Len(last.prev.calls) + Len(ScriptCalls) = 1
        /\ last.ret = last.prev.ret

\* C5 (amended): if the first of the two spins calls the orientation method
\* and the call returns without error, the second spin makes no script call,
\* so there is one call in total, and both return the same value.
C5_SecondSpinReusesResult ==
    (SpunTwice /\ last.prev.calls = <<0>>) =>
        /\ Len(ScriptCalls) = 0
        /\ Len(last.prev.calls) + Len(ScriptCalls) = 1
        /\ last.ret = last.prev.ret

\* The second spin after a first one whose script call succeeded.
C5_Witness ==
    /\ SpunTwice /\ last.prev.calls = <<0>>
    /\ last.ret # Identity

\* The last operation was a spin at t2 right after a spin at another time
\* t1 on the same rotation.
SpunAtAnotherTime ==
    /\ last.op = "spin"
    /\ last.prev.t \in Times /\ last.prev.t # last.t

\* The last spin called the orientation method with (self, t).
CalledOrientationAt(t) ==
    \E i \in DOMAIN ScriptCalls :
        /\ CallFunction(ScriptCalls[i]) = Registered.fields["orientation"]
        /\ CallArgs(ScriptCalls[i]) = <<Registered, Num(t)>>

\* C6 (as claimed): spin(t1) and then spin(t2), t1 # t2, makes a fresh script
\* call with time t2 during the second spin.
C6_NewTimeCallsScript ==
    SpunAtAnotherTime => Registered.type = "table" /\ CalledOrientationAt(last.t)

\* C6 (amended): it does so provided the first spin did not fail softly (it
\* left lastTime = t1) and the registered object is a table with a callable
\* orientation field at the second spin.
C6_NewTimeCallsFunctionalScript ==
    (SpunAtAnotherTime /\ last.before.lastTime = last.prev.t
                       /\ Functional(Registered)) =>
        CalledOrientationAt(last.t)

\* A second spin at a new time, after a first that succeeded, on a
\* functional object.
C6_Witness ==
    /\ SpunAtAnotherTime /\ last.prev.calls = <<0>>
    /\ last.before.lastTime = last.prev.t
    /\ Functional(Registered) /\ Subject.cacheable

\* The three ways a spin that missed the cache fails softly.
ObjectDisappeared == SpinMissed /\ Registered.type # "table"

BadOrientation ==
    SpinMissed /\ Registered.type = "table"
               /\ ~IsCallable(Registered.fields["orientation"])

CallRaised ==
    SpinMissed /\ \E i \in DOMAIN ScriptCalls : CallStatus(ScriptCalls[i]) # 0

\* C7: in each of the three failure modes spin returns the lastOrientation
\* it found and leaves lastOrientation and lastTime unchanged.
C7_SoftFailure ==
    (ObjectDisappeared \/ BadOrientation \/ CallRaised) =>
        /\ last.ret = last.before.lastOrientation
        /\ Cache(Subject) = last.before

\* A script call that raised after an earlier value was cached.
C7_Witness ==
    /\ CallRaised
    /\ last.before.lastOrientation # Identity
    /\ last.t # last.before.lastTime

\* C8: a spin that misses the cache and whose orientation call returns
\* without error called the method with (self, t), sets lastOrientation to
\* (w, x, y, z) from the four values returned, in that order, sets lastTime
\* to t and returns the new quaternion.
C8_SuccessUpdatesCache ==
    (SpinMissed /\ Functional(Registered) /\ ~CallRaised) =>
        /\ Len(ScriptCalls) = 1
        /\ CalledOrientationAt(last.t)
        /\ LET rs == CallPushed(ScriptCalls[1])
           IN /\ Len(rs) = 4
              /\ Subject.lastOrientation =
                    <<AsNumber(rs[1]), AsNumber(rs[2]), AsNumber(rs[3]), AsNumber(rs[4])>>
        /\ Subject.lastTime = last.t
        /\ last.ret = Subject.lastOrientation

\* A successful call that replaced an earlier cached value.
C8_Witness ==
    /\ SpinMissed /\ Functional(Registered) /\ ~CallRaised
    /\ last.before.lastOrientation # Identity
    /\ last.ret # last.before.lastOrientation

\* The last operation was an initialize whose factory call returned a table.
FactoryReturnedTable ==
    /\ last.op = "initialize"
    /\ Len(ScriptCalls) > 0
    /\ LET c == ScriptCalls[Len(ScriptCalls)]
       IN CallStatus(c) = 0 /\ CallPushed(c)[1].type = "table"

\* The table the factory returned.
FactoryResult == CallPushed(ScriptCalls[Len(ScriptCalls)])[1]

\* The number an object declares under key, 0 if the field is absent.
Declared(obj, key) == AsNumber(obj.fields[key])

\* C9: initialize fails whenever the object the factory returned declares
\* endDate < beginDate; after a successful initialize getValidRange yields
\* the declared (beginDate, endDate), with end >= begin.
C9_ValidRange ==
    /\ (last.op = "initialize" /\ last.ret) => FactoryReturnedTable
    /\ FactoryReturnedTable =>
          LET b == Declared(FactoryResult, "beginDate")
              e == Declared(FactoryResult, "endDate")
          IN /\ e < b => ~last.ret
             /\ last.ret => getValidRange(Subject) = <<b, e>>
    /\ \A m \in Models :
          rotations[m].state = "ready" =>
              getValidRange(rotations[m].r)[2] >= getValidRange(rotations[m].r)[1]

\* An initialize that failed for endDate < beginDate alone.
C9_Witness ==
    /\ FactoryReturnedTable /\ ~last.ret
    /\ Declared(FactoryResult, "endDate") < Declared(FactoryResult, "beginDate")
    /\ FactoryResult.fields["endDate"].type = "number"

\* C10: after a successful initialize isPeriodic is true iff the declared
\* period (0 if absent) is not 0; getPeriod is the period if that is not 0,
\* and validRangeEnd - validRangeBegin otherwise.
C10_Period ==
    /\ (FactoryReturnedTable /\ last.ret) =>
          LET p == Declared(FactoryResult, "period")
              b == Declared(FactoryResult, "beginDate")
              e == Declared(FactoryResult, "endDate")
          IN /\ isPeriodic(Subject) <=> p # 0
             /\ p # 0 => getPeriod(Subject) = p
             /\ p = 0 => getPeriod(Subject) = e - b
    /\ \A m \in Models :
          rotations[m].state = "ready" =>
              LET r == rotations[m].r
              IN /\ isPeriodic(r) <=> r.period # 0
                 /\ r.period # 0 => getPeriod(r) = r.period
                 /\ r.period = 0 => getPeriod(r) = r.validRangeEnd - r.validRangeBegin

\* A successful initialize of an aperiodic rotation with a bounded range.
C10_Witness ==
    /\ FactoryReturnedTable /\ last.ret
    /\ FactoryResult.fields["period"].type = "nil"
    /\ getPeriod(Subject) > 0

\* ------------------------------------------------ claims about the shared state
\* The rotation of the last operation as that operation found it: a spin
\* changes lastTime and lastOrientation only.
SubjectBefore ==
    [Subject EXCEPT !.lastTime = last.before.lastTime,
                    !.lastOrientation = last.before.lastOrientation]

\* The Lua state a plainly declared rotation finds when no other
\* construction ever ran on it: an empty stack, the first object name, and
\* its own object in the global table.
FirstName == GenerateScriptObjectName(0)

UntouchedState ==
    [stack   |-> <<>>,
     globals |-> [InitialGlobals EXCEPT ![FirstName] = Registered],
     trace   |-> <<>>,
     status  |-> 0]

\* What the last spin does on that state.
UntouchedSpin ==
    spin([SubjectBefore EXCEPT !.luaRotationObjectName = FirstName],
         UntouchedState, last.t)

\* A construction of rotation 1 failed earlier.
ConstructionFailed == rotations[1].state = "failed"

\* C11: once a construction has failed on the shared Lua state, in whichever
\* way, an initialize of another, plainly declared rotation on that state
\* succeeds, and each spin of that rotation returns the value and leaves the
\* cached values it would on a state no construction had failed on, with
\* the stack at its entry depth.
C11_FailureLeavesStateUsable ==
    /\ (ConstructionFailed /\ contextAvailable
            /\ last.op = "initialize" /\ last.m # 1) => last.ret
    /\ (ConstructionFailed /\ last.op = "spin" /\ last.m # 1) =>
          /\ last.ret = UntouchedSpin.ret
          /\ Cache(Subject) = Cache(UntouchedSpin.self)
          /\ last.branch = UntouchedSpin.branch
          /\ Len(lua.stack) = last.depth0

\* A spin of another rotation after a construction that failed past a loaded
\* module and past its registration: a value is left on the stack and an
\* object in the global table.
C11_Witness ==
    /\ ConstructionFailed /\ last.op = "spin" /\ last.m # 1
    /\ last.depth0 > 0
    /\ rotations[1].r.luaRotationObjectName # ""
    /\ last.branch = "succeeded"

\* ------------------------------------------------ claims about initialize
\* The last operation was an initialize that was given a module name: the
\* first thing it did was to look up require.
ModuleRequested ==
    /\ last.op = "initialize"
    /\ Len(last.trace) > 0
    /\ last.trace[1][1] = "lua_getglobal" /\ last.trace[1][2] = "require"

\* The global require is no function (initialize does not change it).
RequireNotFunction == ModuleRequested /\ ~IsCallable(lua.globals["require"])

\* The call of require raised an error.
RequireRaised ==
    /\ ModuleRequested
    /\ Len(ScriptCalls) > 0
    /\ CallFunction(ScriptCalls[1]) = Func("require")
    /\ CallStatus(ScriptCalls[1]) # 0

\* The global names the last operation looked up, in order.
Lookups ==
    LET gets == SelectSeq(last.trace, LAMBDA e : e[1] = "lua_getglobal")
    IN [i \in 1..Len(gets) |-> gets[i][2]]

\* C12: an initialize given a module name fails when the global require is
\* no function or the call of require raises; the stack is back at its
\* entry depth, and the factory function was neither looked up nor called.
C12_RequireFailure ==
    (RequireNotFunction \/ RequireRaised) =>
        /\ ~last.ret
        /\ Len(lua.stack) = last.depth0
        /\ Lookups = <<"require">>
        /\ Len(ScriptCalls) = (IF RequireRaised THEN 1 ELSE 0)
        /\ Subject.luaRotationObjectName = ""

\* An initialize that found require gone, entered with a non-empty stack.
C12_Witness ==
    /\ RequireNotFunction
    /\ ~last.ret
    /\ last.depth0 > 0

\* C13: an initialize that is handed no parameters, or that finds no shared
\* Lua state, returns failure without a single Lua API call: nothing is
\* looked up, pushed, called or registered.  With no parameters the Lua
\* state is not even acquired.
C13_EarlyFailure ==
    (last.op = "initialize" /\ (last.null \/ ~contextAvailable)) =>
        /\ ~last.ret
        /\ last.trace = <<>>
        /\ Len(lua.stack) = last.depth0
        /\ Subject.luaRotationObjectName = ""
        /\ last.null => Subject.luaState = NULL

\* An initialize without parameters while a Lua state with a non-empty
\* stack was there to acquire.
C13_Witness ==
    /\ last.op = "initialize" /\ last.null
    /\ contextAvailable
    /\ last.depth0 > 0

\* The global names the last operation wrote, in order.
Registrations ==
    LET sets == SelectSeq(last.trace, LAMBDA e : e[1] = "lua_setglobal")
    IN [i \in 1..Len(sets) |-> sets[i][2]]

\* The rotations that hold an object name.
Named == {m \in Models : rotations[m].r.luaRotationObjectName # ""}

\* The object names generated so far.
Generated == {GenerateScriptObjectName(i) : i \in 0..(objectCount - 1)}

\* No two rotations hold one name, every name held was generated, the name
\* generated next is free, and an initialize that registered its object
\* wrote the name generated last, once, and holds it.
HandlesUnique ==
    /\ \A m, n \in Named :
          m # n => rotations[m].r.luaRotationObjectName #
                   rotations[n].r.luaRotationObjectName
    /\ \A m \in Named : rotations[m].r.luaRotationObjectName \in Generated
    /\ \A n \in ObjectNames \ Generated : lua.globals[n].type = "nil"
    /\ (last.op = "initialize" /\ last.ret) =>
          /\ objectCount > 0
          /\ Registrations = <<GenerateScriptObjectName(objectCount - 1)>>
          /\ Subject.luaRotationObjectName = Registrations[1]

\* An initialize writes no object name other than the one generated next,
\* which nothing was stored under, and no operation other than a script
\* changing the global table writes any.
RegistersFreshSlot ==
    \A n \in ObjectNames :
        (lua'.globals[n] # lua.globals[n] /\ last'.op # "mutation") =>
            /\ last'.op = "initialize"
            /\ n = GenerateScriptObjectName(objectCount)
            /\ objectCount' = objectCount + 1
            /\ lua.globals[n].type = "nil"

\* C14: over any sequence of initialize calls on rotations sharing the Lua
\* state, every successful initialize registers its object under a freshly
\* generated name that no earlier initialize used, no registration
\* overwrites the slot of another object, and each name names at most one
\* object.
C14_FreshHandles == []HandlesUnique /\ [][RegistersFreshSlot]_vars

\* A second object registered while the first is still in the global table.
C14_Witness ==
    /\ last.op = "initialize" /\ last.ret
    /\ objectCount >= 2
    /\ \E m \in Named \ {last.m} :
          lua.globals[rotations[m].r.luaRotationObjectName].type = "table"

\* ------------------------------------------------ claims about spin
\* The last operation began by fetching the registered object.
FetchedObject ==
    /\ Len(last.trace) > 0
    /\ last.trace[1][1] = "lua_getglobal"
    /\ last.trace[1][2] = Subject.luaRotationObjectName

\* C15: on a rotation that is not cacheable every spin(t), also one with
\* t = lastTime, fetches the registered object again and, if that is a table
\* with a callable orientation field, calls the method with (self, t); the
\* cached value is never returned without that attempt.
C15_UncacheableRecomputes ==
    (last.op = "spin" /\ ~Subject.cacheable) =>
        /\ last.branch # "cached"
        /\ FetchedObject
        /\ Functional(Registered) =>
              Len(ScriptCalls) = 1 /\ CalledOrientationAt(last.t)

\* A spin of a rotation that is not cacheable, at the time of the value it
\* holds, that called the script again.
C15_Witness ==
    /\ last.op = "spin" /\ ~Subject.cacheable
    /\ last.t = last.before.lastTime
    /\ Functional(Registered)
    /\ Len(ScriptCalls) = 1

\* The last spin failed softly.
SoftFailed == ObjectDisappeared \/ BadOrientation \/ CallRaised

\* The last operation was a spin at the time of the spin before it on the
\* same rotation, and that one failed softly: it got past the cache and no
\* script call of it returned.
SpunAgainAfterFailure ==
    /\ last.op = "spin"
    /\ last.prev.t = last.t
    /\ last.prev.miss /\ last.prev.calls # <<0>>

\* C16: a failure is not cached.  A spin(t) that failed softly leaves
\* lastTime as it was, so different from t unless it was t before; the
\* next spin(t) therefore fetches the object and attempts the call again;
\* and when a script has made the object functional again in between, that
\* spin calls the method afresh and returns the new value.
C16_FailureNotCached ==
    /\ SoftFailed =>
          /\ Subject.lastTime = last.before.lastTime
          /\ last.before.lastTime # last.t => Subject.lastTime # last.t
    /\ SpunAgainAfterFailure =>
          /\ last.branch # "cached"
          /\ FetchedObject
          /\ Functional(Registered) =>
                Len(ScriptCalls) = 1 /\ CalledOrientationAt(last.t)
    /\ (SpunAgainAfterFailure /\ last.mended) =>
          /\ Functional(Registered)
          /\ last.branch = "succeeded"
          /\ CallStatus(ScriptCalls[1]) = 0
          /\ LET rs == CallPushed(ScriptCalls[1])
             IN last.ret = <<AsNumber(rs[1]), AsNumber(rs[2]),
                             AsNumber(rs[3]), AsNumber(rs[4])>>
          /\ Subject.lastTime = last.t

\* A cacheable rotation whose spin failed, whose object was then repaired,
\* and whose next spin at the same time returned a new value.
C16_Witness ==
    /\ SpunAgainAfterFailure /\ last.mended
    /\ Subject.cacheable
    /\ last.before.lastOrientation # Identity
    /\ last.ret # last.before.lastOrientation

\* In the last operation every protected call came before every write of a
\* global.
CallsBeforeRegistration ==
    \A i, j \in DOMAIN last.trace :
        (last.trace[i][1] = "lua_setglobal" /\ last.trace[j][1] = "lua_pcall") => j < i

\* An initialize writes a global and holds an object name only if its
\* factory call returned a table, and it writes after that call.
RegistersVerifiedTable ==
    last.op = "initialize" =>
        /\ (Registrations # <<>> \/ Subject.luaRotationObjectName # "") =>
              FactoryReturnedTable /\ CallsBeforeRegistration
        /\ ~FactoryReturnedTable =>
              Registrations = <<>> /\ Subject.luaRotationObjectName = ""

\* An initialize whose factory call did not return a table generates no
\* object name.
GeneratesForVerifiedTable ==
    (last'.op = "initialize" /\ ~FactoryReturnedTable') =>
        objectCount' = objectCount

\* C17: initialize generates the object name and registers the object in the
\* global table only after the factory call has returned without error and
\* its result is a table; on every branch that fails before (no parameters,
\* no Lua state, require missing or failing, no factory function, factory
\* error, result no table) initialize generates no name and writes no
\* global.
C17_RegistrationAfterVerification ==
    []RegistersVerifiedTable /\ [][GeneratesForVerifiedTable]_vars

\* A registration after a module was loaded and the factory returned a
\* table, while an earlier object is registered.
C17_Witness ==
    /\ ModuleRequested
    /\ Len(ScriptCalls) = 2
    /\ FactoryReturnedTable
    /\ Registrations # <<>>
    /\ objectCount >= 2

\* A step that is a spin of rotation a leaves every other rotation as it
\* was, writes no global and leaves the global table as it was.
SpinIsolated ==
    \A a \in Models :
        (last'.op = "spin" /\ last'.m = a) =>
            /\ \A b \in Models \ {a} : rotations'[b] = rotations[b]
            /\ \A e \in DOMAIN last'.trace : last'.trace[e][1] # "lua_setglobal"
            /\ lua'.globals = lua.globals

\* C18: a spin of one rotation, whether it succeeds, hits the cache or
\* fails softly, leaves lastOrientation, lastTime, period and valid range of
\* every other rotation unchanged and neither writes nor removes the
\* object registered for it; spin writes no global at all.
C18_SpinIsolated == [][SpinIsolated]_vars

\* A successful spin of one rotation while another holds a value cached
\* for another time.
C18_Witness ==
    /\ last.op = "spin" /\ last.branch = "succeeded"
    /\ \E b \in Models \ {last.m} :
          /\ rotations[b].state = "ready"
          /\ rotations[b].r.lastOrientation # Identity
          /\ rotations[b].r.lastTime # Subject.lastTime
          /\ lua.globals[rotations[b].r.luaRotationObjectName].type = "table"

\* What the orientation method of the registered object returns for the
\* last spin, before the results are adjusted.
OrientationReturn ==
    CallBody(Registered.fields["orientation"].body,
             <<Registered, Num(last.t)>>, lua.globals)

\* The last spin called an orientation method that returned without error
\* but not exactly four numbers.
MalformedReturn ==
    /\ SpinMissed /\ Functional(Registered)
    /\ OrientationReturn.ok
    /\ LET rs == OrientationReturn.results
       IN Len(rs) # 4 \/ \E i \in DOMAIN rs : rs[i].type # "number"

\* The i-th of the values rs as a quaternion component: 0 if it is missing
\* or no number.
Component(rs, i) ==
    IF i <= Len(rs) /\ rs[i].type = "number" THEN rs[i].n ELSE 0

\* C19: a malformed but error-free return of the orientation method (fewer
\* than four values, more than four, values that are no numbers) is no
\* failure: spin takes the success branch, reads the first four results
\* with each missing or non-numeric one as 0, overwrites lastOrientation
\* and lastTime, returns the new value and leaves the stack at its entry
\* depth.
C19_MalformedReturnAccepted ==
    MalformedReturn =>
        LET rs == OrientationReturn.results
            q  == <<Component(rs, 1), Component(rs, 2),
                    Component(rs, 3), Component(rs, 4)>>
        IN /\ last.branch = "succeeded"
           /\ Subject.lastOrientation = q
           /\ Subject.lastTime = last.t
           /\ last.ret = q
           /\ Len(lua.stack) = last.depth0

\* A spin whose orientation method returned two values, entered with a
\* non-empty stack and an earlier value cached.
C19_Witness ==
    /\ MalformedReturn
    /\ Len(OrientationReturn.results) < 4
    /\ last.depth0 > 0
    /\ last.before.lastOrientation # Identity

====
